---- MODULE Spec2Model ----
(***************************************************************************)
(* Model of package jaywt (jaywt.go): extraction of a JWT from the         *)
(* Authorization header of a request, delegation of parsing/verification   *)
(* to the jwt-go library, and the check that the verified token's declared *)
(* algorithm is the configured one.                                        *)
(*                                                                         *)
(* Go strings are modelled as sequences of one-character strings, so that  *)
(* strings.Split and strings.ToLower are computed, not assumed.            *)
(***************************************************************************)
EXTENDS Integers, Sequences, FiniteSets, TLC

(***************************************************************************)
(* Bounds of the model.                                                    *)
(***************************************************************************)
\* longest tail appended to a scheme word when enumerating header values
MaxTail == 3
\* number of validations that may be in flight on one Core
NumProcs == 2

Procs == 1..NumProcs

(***************************************************************************)
(* Strings.                                                                *)
(***************************************************************************)
EmptyString == << >>
Space == " "

\* unicode.ToLower restricted to ASCII: 'A'..'Z' map to 'a'..'z', every
\* other character is unchanged.
ToLowerChar(c) ==
  CASE c = "A" -> "a" [] c = "B" -> "b" [] c = "C" -> "c" [] c = "D" -> "d"
    [] c = "E" -> "e" [] c = "F" -> "f" [] c = "G" -> "g" [] c = "H" -> "h"
    [] c = "I" -> "i" [] c = "J" -> "j" [] c = "K" -> "k" [] c = "L" -> "l"
    [] c = "M" -> "m" [] c = "N" -> "n" [] c = "O" -> "o" [] c = "P" -> "p"
    [] c = "Q" -> "q" [] c = "R" -> "r" [] c = "S" -> "s" [] c = "T" -> "t"
    [] c = "U" -> "u" [] c = "V" -> "v" [] c = "W" -> "w" [] c = "X" -> "x"
    [] c = "Y" -> "y" [] c = "Z" -> "z"
    [] OTHER -> c

\* strings.ToLower
ToLower(s) == [i \in 1..Len(s) |-> ToLowerChar(s[i])]

\* strings.Split(s, sep) for a one-character separator: the substrings
\* between the separators, in order; n separators give n+1 substrings.
RECURSIVE SplitFrom(_, _, _, _)
SplitFrom(s, sep, i, cur) ==
  IF i > Len(s) THEN << cur >>
  ELSE IF s[i] = sep THEN << cur >> \o SplitFrom(s, sep, i + 1, << >>)
  ELSE SplitFrom(s, sep, i + 1, Append(cur, s[i]))

Split(s, sep) == SplitFrom(s, sep, 1, << >>)

(***************************************************************************)
(* Errors are values: a message and the arguments formatted into it.       *)
(***************************************************************************)
NoErr == [msg |-> "", args |-> << >>]
Errorf(m, a) == [msg |-> m, args |-> a]

FormatErrMsg == "Authorization header format must be 'Bearer <token>'"
ExtractErrMsg == "Error extracting token: %v"
NotFoundMsg == "Token not found"
ParseErrMsg == "Error parsing token: %v"
AlgErrMsg == "Invalid token algorithm. Wanted %s, got %s"

\* the text %v prints for an error: its message followed by its arguments
ErrText(e) == << e.msg >> \o e.args

(***************************************************************************)
(* Requests: only the Authorization header is read.                        *)
(***************************************************************************)
\* http.Header.Get: the header's value, "" when the header is absent
HeaderGet(r) == IF r.present THEN r.value ELSE EmptyString

Bearer == << "b", "e", "a", "r", "e", "r" >>

\* FromAuthHeader without its test for an empty header
FromAuthHeaderNoEmptyTest(r) ==
  LET header == HeaderGet(r)
      parts == Split(header, Space)
  IN IF Len(parts) # 2 \/ ToLower(parts[1]) # Bearer
       THEN [raw |-> EmptyString, err |-> Errorf(FormatErrMsg, << >>)]
     ELSE [raw |-> parts[2], err |-> NoErr]

\* FromAuthHeader comparing the scheme with "Bearer" as written
FromAuthHeaderCaseSensitive(r) ==
  LET header == HeaderGet(r)
      parts == Split(header, Space)
  IN IF header = EmptyString
       THEN [raw |-> EmptyString, err |-> NoErr]
     ELSE IF Len(parts) # 2 \/ parts[1] # << "B", "e", "a", "r", "e", "r" >>
       THEN [raw |-> EmptyString, err |-> Errorf(FormatErrMsg, << >>)]
     ELSE [raw |-> parts[2], err |-> NoErr]

\* FromAuthHeader lower-casing the whole header before splitting it
FromAuthHeaderLowering(r) ==
  LET header == ToLower(HeaderGet(r))
      parts == Split(header, Space)
  IN IF header = EmptyString
       THEN [raw |-> EmptyString, err |-> NoErr]
     ELSE IF Len(parts) # 2 \/ parts[1] # Bearer
       THEN [raw |-> EmptyString, err |-> Errorf(FormatErrMsg, << >>)]
     ELSE [raw |-> parts[2], err |-> NoErr]

\* FromAuthHeader, the default extractor
FromAuthHeader(r) ==
  LET header == HeaderGet(r)
      parts == Split(header, Space)
  IN IF header = EmptyString
       THEN [raw |-> EmptyString, err |-> NoErr]
     ELSE IF Len(parts) # 2 \/ ToLower(parts[1]) # Bearer
       THEN [raw |-> EmptyString, err |-> Errorf(FormatErrMsg, << >>)]
     ELSE [raw |-> parts[2], err |-> NoErr]

(***************************************************************************)
(* Options, signing methods, tokens.                                       *)
(***************************************************************************)
Nil == "nil"

\* jwt.SigningMethod values and their Alg() strings
SigningMethodHS256 == "SigningMethodHS256"
SigningMethodHS384 == "SigningMethodHS384"
SigningMethodRS256 == "SigningMethodRS256"

Alg(m) ==
  CASE m = SigningMethodHS256 -> "HS256"
    [] m = SigningMethodHS384 -> "HS384"
    [] m = SigningMethodRS256 -> "RS256"

\* a value of token.Header["alg"] (an interface{}): its dynamic type and
\* its printed value; a missing entry is the nil interface
StringVal(s) == [type |-> "string", val |-> s]
NilVal == [type |-> "nil", val |-> ""]
NumberVal(n) == [type |-> "float64", val |-> n]

\* Go's comparison of a string with an interface{} value: equal when the
\* dynamic type is string and the strings are equal, byte for byte
StringEqualsInterface(s, v) == v.type = "string" /\ v.val = s

\* what %s prints for an interface{} value
FormatS(v) ==
  CASE v.type = "string" -> v.val
    [] v.type = "nil" -> "%!s(<nil>)"
    [] OTHER -> "%!s(" \o v.type \o "=" \o v.val \o ")"

\* *jwt.Token: the nil pointer, or a token with its raw string, the alg entry
\* of its header, its claims (container and decoded data) and its Valid flag
NilToken ==
  [isNil |-> TRUE, Raw |-> EmptyString, alg |-> NilVal,
   Claims |-> [container |-> Nil, data |-> Nil], Valid |-> FALSE]

Token(raw, a, container, data, valid) ==
  [isNil |-> FALSE, Raw |-> raw, alg |-> a,
   Claims |-> [container |-> container, data |-> data], Valid |-> valid]

\* the name of the default extractor as a function value
FromAuthHeaderFn == "FromAuthHeader"
\* a caller-supplied extractor
CustomExtractorFn == "CustomExtractor"

\* New installing the default extractor whether or not the caller set one
NewOptionsOverwriting(o) ==
  LET o1 == [o EXCEPT !.Extractor = FromAuthHeaderFn]
  IN IF o1.SigningMethod = Nil
       THEN [o1 EXCEPT !.SigningMethod = SigningMethodHS256] ELSE o1

\* New: defaults for the fields the caller left nil, written into the
\* caller's Options object, which the Core then points to
NewOptions(o) ==
  LET o1 == IF o.Extractor = Nil
              THEN [o EXCEPT !.Extractor = FromAuthHeaderFn] ELSE o
  IN IF o1.SigningMethod = Nil
       THEN [o1 EXCEPT !.SigningMethod = SigningMethodHS256] ELSE o1

\* rawToken without its test for an empty token
rawTokenNoEmptyTest(e) ==
  IF e.err # NoErr
    THEN [raw |-> EmptyString, err |-> Errorf(ExtractErrMsg, ErrText(e.err))]
  ELSE [raw |-> e.raw, err |-> NoErr]

\* Core.rawToken, given what the configured extractor returned
rawToken(e) ==
  IF e.err # NoErr
    THEN [raw |-> EmptyString, err |-> Errorf(ExtractErrMsg, ErrText(e.err))]
  ELSE IF e.raw = EmptyString
    THEN [raw |-> EmptyString, err |-> Errorf(NotFoundMsg, << >>)]
  ELSE [raw |-> e.raw, err |-> NoErr]

\* validateToken comparing only when the header has an alg entry
validateTokenIfPresent(o, token) ==
  LET alg == Alg(o.SigningMethod)
  IN IF token.alg.type # "nil" /\ ~StringEqualsInterface(alg, token.alg)
       THEN Errorf(AlgErrMsg, << alg, FormatS(token.alg) >>)
       ELSE NoErr

\* validateToken with its comparison inverted
validateTokenInverted(o, token) ==
  LET alg == Alg(o.SigningMethod)
  IN IF StringEqualsInterface(alg, token.alg)
       THEN Errorf(AlgErrMsg, << alg, FormatS(token.alg) >>)
       ELSE NoErr

\* Core.validateToken
validateToken(o, token) ==
  LET alg == Alg(o.SigningMethod)
  IN IF ~StringEqualsInterface(alg, token.alg)
       THEN Errorf(AlgErrMsg, << alg, FormatS(token.alg) >>)
       ELSE NoErr

\* the claims container the library decodes into: jwt.Parse uses a fresh
\* MapClaims, jwt.ParseWithClaims the caller's container
MapClaims == "MapClaims"
ClaimsContainer(e, claims) == IF e = "Get" THEN MapClaims ELSE claims

(***************************************************************************)
(* Inputs.                                                                 *)
(***************************************************************************)
Absent == [present |-> FALSE, value |-> EmptyString]
Header(v) == [present |-> TRUE, value |-> v]

\* a raw token as opaque text (no space in it) and one with a space in it
RawAb == << "a", "B" >>
BearerUpper == << "B", "e", "a", "r", "e", "r" >>
TokenWord == << "T", "o", "k", "e", "n" >>

\* the requests validations are called with
Requests ==
  { Absent,
    Header(EmptyString),
    Header(BearerUpper \o << Space >>),
    Header(BearerUpper \o << Space >> \o RawAb),
    Header(Bearer \o << Space >> \o RawAb),
    Header(TokenWord \o << Space >> \o RawAb),
    Header(BearerUpper \o << Space >> \o RawAb \o << Space >> \o RawAb) }

\* the Options a caller may pass to New
KeyfuncK == "KeyfuncK"
OptionsIn ==
  [Keyfunc : {Nil, KeyfuncK},
   Extractor : {Nil, FromAuthHeaderFn, CustomExtractorFn},
   SigningMethod : {Nil, SigningMethodHS256, SigningMethodRS256}]

\* containers a caller may pass to GetWithClaims
StandardClaims == "StandardClaims"
CallerClaims == {StandardClaims}

\* what a caller-supplied extractor may return: any string, any error
CustomErrMsg == "cookie missing"
CustomOutcomes ==
  { [raw |-> EmptyString, err |-> NoErr],
    [raw |-> RawAb, err |-> NoErr],
    [raw |-> EmptyString, err |-> Errorf(CustomErrMsg, << >>)],
    [raw |-> RawAb, err |-> Errorf(CustomErrMsg, << >>)] }

\* m.Options.Extractor(r): the configured extractor applied to the request
ExtractorOutcomes(ext, r) ==
  IF ext = FromAuthHeaderFn THEN {FromAuthHeader(r)} ELSE CustomOutcomes

(***************************************************************************)
(* The library (gopkg.in/dgrijalva/jwt-go.v3) as the Core sees it: Parse   *)
(* and ParseWithClaims return a token and an error.  Here it is any        *)
(* function of that shape: it may accept or reject any raw token, and an   *)
(* accepted token may carry any alg entry.  A nil Keyfunc is rejected.     *)
(***************************************************************************)
AlgValues ==
  { StringVal("HS256"), StringVal("hs256"), StringVal("RS256"),
    NilVal, NumberVal("256") }

ClaimsData == {"claimsA"}

LibErrors ==
  { Errorf("token contains an invalid number of segments", << >>),
    Errorf("signature is invalid", << >>) }
NoKeyfuncErr == Errorf("no Keyfunc was provided.", << >>)

LibAccepted(raw, container) ==
  { [token |-> Token(raw, a, container, d, TRUE), err |-> NoErr] :
      a \in AlgValues, d \in ClaimsData }

LibRejected(raw, container, errs) ==
  { [token |-> t, err |-> e] :
      t \in {NilToken, Token(raw, StringVal("HS256"), container, "claimsA", FALSE)},
      e \in errs }

ParseOutcomes(raw, container, keyfunc) ==
  IF keyfunc = Nil
    THEN LibRejected(raw, container, {NoKeyfuncErr})
    ELSE LibAccepted(raw, container) \cup LibRejected(raw, container, LibErrors)

(***************************************************************************)
(* State.                                                                  *)
(***************************************************************************)
VARIABLES
  optsIn,    \* the Options as the caller filled them in, before New
  options,   \* the Options object the Core points to
  core,      \* Nil until New has returned, then "built"
  pc,        \* per validation: idle, rawToken, parse, validate, done
  entry,     \* per validation: "Get" or "GetWithClaims"
  req,       \* per validation: the request
  claims,    \* per validation: the claims container passed in
  ext,       \* per validation: what the extractor returned
  raw,       \* per validation: the local raw
  lib,       \* per validation: what the library returned
  result,    \* per validation: the (token, error) returned to the caller
  calls,     \* per validation: the collaborators called so far, in order
  dreq,      \* a request FromAuthHeader is called on directly
  dout       \* what that direct call returned

vars ==
  << optsIn, options, core, pc, entry, req, claims, ext, raw, lib, result,
     calls, dreq, dout >>

procVars == << pc, entry, req, claims, ext, raw, lib, result, calls >>
directVars == << dreq, dout >>
coreVars == << optsIn, options, core >>

NoExt == [raw |-> EmptyString, err |-> NoErr]
NoLib == [token |-> NilToken, err |-> NoErr]
NoResult == [token |-> NilToken, err |-> NoErr]
NotCalled == [called |-> FALSE, raw |-> EmptyString, err |-> NoErr]

ProcInit ==
  /\ pc = [p \in Procs |-> "idle"]
  /\ entry = [p \in Procs |-> "Get"]
  /\ req = [p \in Procs |-> Absent]
  /\ claims = [p \in Procs |-> Nil]
  /\ ext = [p \in Procs |-> NoExt]
  /\ raw = [p \in Procs |-> EmptyString]
  /\ lib = [p \in Procs |-> NoLib]
  /\ result = [p \in Procs |-> NoResult]
  /\ calls = [p \in Procs |-> << >>]

Init ==
  /\ optsIn \in OptionsIn
  /\ options = optsIn
  /\ core = Nil
  /\ ProcInit
  /\ dreq = Absent
  /\ dout = NotCalled

(***************************************************************************)
(* Operations.                                                             *)
(***************************************************************************)
\* New(o)
New ==
  /\ core = Nil
  /\ options' = NewOptions(options)
  /\ core' = "built"
  /\ UNCHANGED << optsIn, procVars, directVars >>

\* a caller enters Get or GetWithClaims with request r
Enter(p, e, r, c) ==
  /\ core = "built"
  /\ pc[p] = "idle"
  /\ pc' = [pc EXCEPT ![p] = "rawToken"]
  /\ entry' = [entry EXCEPT ![p] = e]
  /\ req' = [req EXCEPT ![p] = r]
  /\ claims' = [claims EXCEPT ![p] = c]
  /\ UNCHANGED << coreVars, ext, raw, lib, result, calls, directVars >>

Call(p) ==
  \E r \in Requests :
    \/ Enter(p, "Get", r, Nil)
    \/ \E c \in CallerClaims : Enter(p, "GetWithClaims", r, c)

\* Get going on to the library after rawToken failed
RawTokenStepNoReturn(p) ==
  /\ pc[p] = "rawToken"
  /\ \E e \in ExtractorOutcomes(options.Extractor, req[p]) :
       LET r == rawToken(e)
       IN /\ ext' = [ext EXCEPT ![p] = e]
          /\ calls' = [calls EXCEPT ![p] = Append(@, "Extractor")]
          /\ raw' = [raw EXCEPT ![p] = r.raw]
          /\ pc' = [pc EXCEPT ![p] = "parse"]
          /\ result' = result
  /\ UNCHANGED << coreVars, entry, req, claims, lib, directVars >>

\* raw, err := m.rawToken(r); if err != nil { return nil, err }
RawTokenStep(p) ==
  /\ pc[p] = "rawToken"
  /\ \E e \in ExtractorOutcomes(options.Extractor, req[p]) :
       LET r == rawToken(e)
       IN /\ ext' = [ext EXCEPT ![p] = e]
          /\ calls' = [calls EXCEPT ![p] = Append(@, "Extractor")]
          /\ IF r.err # NoErr
               THEN /\ result' = [result EXCEPT ![p] = [token |-> NilToken, err |-> r.err]]
                    /\ pc' = [pc EXCEPT ![p] = "done"]
                    /\ raw' = raw
               ELSE /\ raw' = [raw EXCEPT ![p] = r.raw]
                    /\ pc' = [pc EXCEPT ![p] = "parse"]
                    /\ result' = result
  /\ UNCHANGED << coreVars, entry, req, claims, lib, directVars >>

\* Get testing the returned token for nil instead of the error
ParseWithTokenTest(p, outcomes) ==
  /\ pc[p] = "parse"
  /\ \E l \in outcomes :
       /\ lib' = [lib EXCEPT ![p] = l]
       /\ calls' = [calls EXCEPT ![p] = Append(@, "Parse")]
       /\ IF l.token = NilToken
            THEN /\ result' = [result EXCEPT ![p] =
                      [token |-> NilToken, err |-> Errorf(ParseErrMsg, ErrText(l.err))]]
                 /\ pc' = [pc EXCEPT ![p] = "done"]
            ELSE /\ pc' = [pc EXCEPT ![p] = "validate"]
                 /\ result' = result
  /\ UNCHANGED << coreVars, entry, req, claims, ext, raw, directVars >>

\* token, err := jwt.Parse(raw, m.Options.Keyfunc), or jwt.ParseWithClaims;
\* if err != nil { return nil, fmt.Errorf("Error parsing token: %v", err) }
ParseWith(p, outcomes) ==
  /\ pc[p] = "parse"
  /\ \E l \in outcomes :
       /\ lib' = [lib EXCEPT ![p] = l]
       /\ calls' = [calls EXCEPT ![p] = Append(@, "Parse")]
       /\ IF l.err # NoErr
            THEN /\ result' = [result EXCEPT ![p] =
                      [token |-> NilToken, err |-> Errorf(ParseErrMsg, ErrText(l.err))]]
                 /\ pc' = [pc EXCEPT ![p] = "done"]
            ELSE /\ pc' = [pc EXCEPT ![p] = "validate"]
                 /\ result' = result
  /\ UNCHANGED << coreVars, entry, req, claims, ext, raw, directVars >>

ParseStep(p) ==
  ParseWith(p, ParseOutcomes(raw[p], ClaimsContainer(entry[p], claims[p]),
                             options.Keyfunc))

\* a validation that trusts the token's declared algorithm: it stores the
\* method the token names in the Options and accepts the token
ValidateTokenStepAdopting(p) ==
  /\ pc[p] = "validate"
  /\ options' = [options EXCEPT !.SigningMethod =
       IF lib[p].token.alg = StringVal("RS256") THEN SigningMethodRS256
       ELSE IF lib[p].token.alg = StringVal("HS256") THEN SigningMethodHS256
       ELSE @]
  /\ result' = [result EXCEPT ![p] = [token |-> lib[p].token, err |-> NoErr]]
  /\ calls' = [calls EXCEPT ![p] = Append(@, "validateToken")]
  /\ pc' = [pc EXCEPT ![p] = "done"]
  /\ UNCHANGED << optsIn, core, entry, req, claims, ext, raw, lib, directVars >>

\* if err = m.validateToken(token); err != nil { return nil, err }
\* return token, nil
ValidateTokenStep(p) ==
  /\ pc[p] = "validate"
  /\ LET e == validateToken(options, lib[p].token)
     IN result' = [result EXCEPT ![p] =
          IF e # NoErr THEN [token |-> NilToken, err |-> e]
                       ELSE [token |-> lib[p].token, err |-> NoErr]]
  /\ calls' = [calls EXCEPT ![p] = Append(@, "validateToken")]
  /\ pc' = [pc EXCEPT ![p] = "done"]
  /\ UNCHANGED << coreVars, entry, req, claims, ext, raw, lib, directVars >>

\* the caller has consumed the result; nothing of the validation is kept
Return(p) ==
  /\ pc[p] = "done"
  /\ pc' = [pc EXCEPT ![p] = "idle"]
  /\ entry' = [entry EXCEPT ![p] = "Get"]
  /\ req' = [req EXCEPT ![p] = Absent]
  /\ claims' = [claims EXCEPT ![p] = Nil]
  /\ ext' = [ext EXCEPT ![p] = NoExt]
  /\ raw' = [raw EXCEPT ![p] = EmptyString]
  /\ lib' = [lib EXCEPT ![p] = NoLib]
  /\ result' = [result EXCEPT ![p] = NoResult]
  /\ calls' = [calls EXCEPT ![p] = << >>]
  /\ UNCHANGED << coreVars, directVars >>

\* one validation at a time
Sequential == {1}

Next ==
  \/ New
  \/ \E p \in Sequential : Call(p)
  \/ \E p \in Sequential : RawTokenStep(p)
  \/ \E p \in Sequential : ParseStep(p)
  \/ \E p \in Sequential : ValidateTokenStep(p)
  \/ \E p \in Sequential : Return(p)

Spec == Init /\ [][Next]_vars

(***************************************************************************)
(* Properties of a validation.                                             *)
(***************************************************************************)
Done(p) == pc[p] = "done"
Called(p, c) == \E i \in 1..Len(calls[p]) : calls[p][i] = c
Steps == << "Extractor", "Parse", "validateToken" >>
ExpectedAlg == StringVal(Alg(options.SigningMethod))

\* C1: when the library accepted a token whose header alg is not exactly the
\* configured method's Alg() string (another case, another algorithm, a
\* missing or non-string entry), Get and GetWithClaims return the algorithm
\* mismatch error and a nil token; a token is returned only when the two
\* are equal.
C1_AlgorithmPinned ==
  \A p \in Procs :
    Done(p) =>
      /\ (Called(p, "Parse") /\ lib[p].err = NoErr /\ lib[p].token.alg # ExpectedAlg)
           => /\ result[p].token = NilToken
              /\ result[p].err.msg = AlgErrMsg
      /\ result[p].token # NilToken
           => /\ lib[p].token.alg = ExpectedAlg
              /\ result[p].err = NoErr

C1_Witness ==
  \E p \in Procs :
    /\ Done(p)
    /\ entry[p] = "GetWithClaims"
    /\ lib[p].err = NoErr
    /\ lib[p].token.Valid
    /\ lib[p].token.alg = StringVal("hs256")
    /\ options.SigningMethod = SigningMethodHS256
    /\ result[p].err.msg = AlgErrMsg

\* C2: with the default extractor, a request whose Authorization header is
\* absent or empty makes FromAuthHeader return ("", nil) and makes Get and
\* GetWithClaims fail with "Token not found", a nil token, and no call of
\* the library.
C2_AbsentHeaderNotFound ==
  \A p \in Procs :
    (Done(p) /\ options.Extractor = FromAuthHeaderFn /\ HeaderGet(req[p]) = EmptyString)
      => /\ ext[p] = [raw |-> EmptyString, err |-> NoErr]
         /\ result[p] = [token |-> NilToken, err |-> Errorf(NotFoundMsg, << >>)]
         /\ ~Called(p, "Parse")

C2_Witness ==
  \E p \in Procs :
    /\ Done(p)
    /\ options.Extractor = FromAuthHeaderFn
    /\ req[p] = Absent
    /\ result[p].err.msg = NotFoundMsg

\* C6: when the library rejects the raw token (whatever token it returns
\* beside the error), Get and GetWithClaims return a nil token and the
\* "Error parsing token" error that carries the library's error, and the
\* algorithm check does not run.
C6_ParseErrorWrapped ==
  \A p \in Procs :
    (Done(p) /\ Called(p, "Parse") /\ lib[p].err # NoErr)
      => /\ result[p].token = NilToken
         /\ result[p].err = Errorf(ParseErrMsg, << lib[p].err.msg >> \o lib[p].err.args)
         /\ result[p].err.msg # AlgErrMsg
         /\ ~Called(p, "validateToken")

C6_Witness ==
  \E p \in Procs :
    /\ Done(p)
    /\ lib[p].err.msg = "signature is invalid"
    /\ lib[p].token # NilToken
    /\ lib[p].token.alg # ExpectedAlg
    /\ result[p].err.msg = ParseErrMsg

\* the outcome of a validation on a Core whose Options name the default
\* extractor and HS256 explicitly, for request r and library answer l
ExplicitOptions(keyfunc) ==
  [Keyfunc |-> keyfunc, Extractor |-> FromAuthHeaderFn,
   SigningMethod |-> SigningMethodHS256]

ExplicitOutcome(keyfunc, r, l) ==
  LET e == FromAuthHeader(r)
  IN IF e.err # NoErr
       THEN [token |-> NilToken, err |-> Errorf(ExtractErrMsg, << e.err.msg >> \o e.err.args)]
     ELSE IF e.raw = EmptyString
       THEN [token |-> NilToken, err |-> Errorf(NotFoundMsg, << >>)]
     ELSE IF l.err # NoErr
       THEN [token |-> NilToken, err |-> Errorf(ParseErrMsg, << l.err.msg >> \o l.err.args)]
     ELSE IF l.token.alg # StringVal("HS256")
       THEN [token |-> NilToken, err |-> Errorf(AlgErrMsg, << "HS256", FormatS(l.token.alg) >>)]
     ELSE [token |-> l.token, err |-> NoErr]

\* C7: New fills in FromAuthHeader and HS256 for an unset Extractor and
\* SigningMethod, keeps every field the caller set, supplies no Keyfunc, and
\* a Core built from Options with both unset returns what a Core with both
\* set explicitly returns, for the same request and library answer.
C7_DefaultsAsExplicit ==
  core = "built" =>
    /\ options.Keyfunc = optsIn.Keyfunc
    /\ optsIn.Extractor # Nil => options.Extractor = optsIn.Extractor
    /\ optsIn.SigningMethod # Nil => options.SigningMethod = optsIn.SigningMethod
    /\ (optsIn.Extractor = Nil /\ optsIn.SigningMethod = Nil)
         => /\ options = ExplicitOptions(optsIn.Keyfunc)
            /\ \A p \in Procs :
                 Done(p) => result[p] = ExplicitOutcome(optsIn.Keyfunc, req[p], lib[p])

C7_Witness ==
  \E p \in Procs :
    /\ Done(p)
    /\ optsIn.Extractor = Nil
    /\ optsIn.SigningMethod = Nil
    /\ optsIn.Keyfunc # Nil
    /\ result[p].token # NilToken

\* C9: a validation calls the extractor, then the library, then the
\* algorithm check, each at most once and each only after the one before
\* succeeded; it returns at the first failure with that step's error and a
\* nil token.
IsPrefix(s, t) == Len(s) <= Len(t) /\ \A i \in 1..Len(s) : s[i] = t[i]

C9_LinearFailFast ==
  \A p \in Procs :
    /\ IsPrefix(calls[p], Steps)
    /\ pc[p] # "idle" /\ pc[p] # "rawToken" => Len(calls[p]) >= 1
    /\ Called(p, "Parse") => (ext[p].err = NoErr /\ ext[p].raw # EmptyString)
    /\ Called(p, "validateToken") => lib[p].err = NoErr
    /\ Done(p) =>
         /\ result[p].err # NoErr => result[p].token = NilToken
         /\ Len(calls[p]) = 1 =>
              result[p].err.msg \in {ExtractErrMsg, NotFoundMsg}
         /\ Len(calls[p]) = 2 =>
              (lib[p].err # NoErr /\ result[p].err.msg = ParseErrMsg)
         /\ Len(calls[p]) = 3 =>
              \/ result[p].err.msg = AlgErrMsg
              \/ result[p] = [token |-> lib[p].token, err |-> NoErr]

C9_Witness ==
  \E p \in Procs :
    /\ Done(p)
    /\ calls[p] = << "Extractor", "Parse" >>
    /\ result[p].err.msg = ParseErrMsg
    /\ result[p].token = NilToken

\* C10: the library is only ever given a non-empty raw token: an extractor
\* (default or caller-supplied) that returns "" without an error makes the
\* validation fail with "Token not found", and one that returns an error
\* makes it fail with "Error extracting token" carrying that error.
C10_RawTokenNonEmpty ==
  \A p \in Procs :
    /\ pc[p] \in {"parse", "validate"} => raw[p] # EmptyString
    /\ Called(p, "Parse") => raw[p] # EmptyString
    /\ (Done(p) /\ ext[p].err = NoErr /\ ext[p].raw = EmptyString)
         => /\ result[p] = [token |-> NilToken, err |-> Errorf(NotFoundMsg, << >>)]
            /\ ~Called(p, "Parse")
    /\ (Done(p) /\ ext[p].err # NoErr)
         => /\ result[p] = [token |-> NilToken,
                            err |-> Errorf(ExtractErrMsg, << ext[p].err.msg >> \o ext[p].err.args)]
            /\ ~Called(p, "Parse")

C10_Witness ==
  \E p \in Procs :
    /\ Done(p)
    /\ options.Extractor = FromAuthHeaderFn
    /\ req[p] = Header(BearerUpper \o << Space >>)
    /\ ext[p] = [raw |-> EmptyString, err |-> NoErr]
    /\ result[p].err.msg = NotFoundMsg

(***************************************************************************)
(* FromAuthHeader called directly, on every header made of a scheme word   *)
(* followed by a short tail of spaces and token characters.                *)
(***************************************************************************)
BearerCaps == << "B", "E", "A", "R", "E", "R" >>
BearerMixed == << "b", "E", "a", "R", "e", "r" >>
SchemeWords == {EmptyString, Bearer, BearerUpper, BearerCaps, BearerMixed, TokenWord}
TailAlphabet == {Space, "a", "B", "."}
Tails == UNION { [1..k -> TailAlphabet] : k \in 0..MaxTail }

DirectRequests ==
  {Absent} \cup { Header(w \o t) : w \in SchemeWords, t \in Tails }

InitExtract ==
  /\ optsIn = [Keyfunc |-> Nil, Extractor |-> Nil, SigningMethod |-> Nil]
  /\ options = optsIn
  /\ core = Nil
  /\ ProcInit
  /\ dreq \in DirectRequests
  /\ dout = NotCalled

\* raw, err := FromAuthHeader(r)
CallFromAuthHeader ==
  /\ ~dout.called
  /\ LET e == FromAuthHeader(dreq)
     IN dout' = [called |-> TRUE, raw |-> e.raw, err |-> e.err]
  /\ UNCHANGED << coreVars, procVars, dreq >>

NextExtract == CallFromAuthHeader

SpecExtract == InitExtract /\ [][NextExtract]_vars

NumSpaces(h) == Cardinality({ i \in 1..Len(h) : h[i] = Space })
FirstSpace(h) == CHOOSE i \in 1..Len(h) : h[i] = Space /\ \A j \in 1..(i - 1) : h[j] # Space
\* w is "bearer" in some mix of upper and lower case
IsBearerVariant(w) ==
  /\ Len(w) = 6
  /\ \A i \in 1..6 : w[i] = Bearer[i] \/ w[i] = BearerCaps[i]
\* h is <scheme> <space> <token> with a bearer scheme and no other space
WellFormed(h) ==
  /\ NumSpaces(h) = 1
  /\ IsBearerVariant(SubSeq(h, 1, FirstSpace(h) - 1))

\* C3: a non-empty header is rejected with the format error and the empty
\* string exactly when it has no space or more than one, or when the part
\* before its space is not "bearer" in some mix of cases; every case variant
\* of "bearer" followed by exactly one space is accepted.
C3_FormatErrorOrAccepted ==
  (dout.called /\ HeaderGet(dreq) # EmptyString) =>
    IF WellFormed(dreq.value)
      THEN dout.err = NoErr
      ELSE dout.err = Errorf(FormatErrMsg, << >>) /\ dout.raw = EmptyString

C3_Witness ==
  /\ dout.called
  /\ Len(dreq.value) >= 8
  /\ NumSpaces(dreq.value) = 2
  /\ IsBearerVariant(SubSeq(dreq.value, 1, 6))
  /\ dreq.value[7] = Space
  /\ dout.err.msg = FormatErrMsg

\* C4: for a header <scheme> <space> <rawtoken> with a bearer scheme and no
\* space in <rawtoken>, FromAuthHeader returns <rawtoken> exactly (the
\* header's characters after the space, unchanged) and no error.
C4_TokenVerbatim ==
  (dout.called /\ dreq.present) =>
    \A k \in 1..Len(dreq.value) :
      ( /\ dreq.value[k] = Space
        /\ IsBearerVariant(SubSeq(dreq.value, 1, k - 1))
        /\ \A j \in (k + 1)..Len(dreq.value) : dreq.value[j] # Space )
      => /\ dout.raw = SubSeq(dreq.value, k + 1, Len(dreq.value))
         /\ dout.err = NoErr

C4_Witness ==
  /\ dout.called
  /\ dreq.value = BearerMixed \o << Space, "a", "B" >>
  /\ dout.raw = << "a", "B" >>
  /\ dout.err = NoErr

(***************************************************************************)
(* Concurrent validations on one Core: every validation in Procs may be at *)
(* any step while the others run.                                          *)
(***************************************************************************)
ConcRequests == { Absent, Header(BearerUpper \o << Space >> \o RawAb) }

\* the Options of the shared Core: a key resolver is set, the extractor and
\* the signing method may be left to New
OptionsConc ==
  [Keyfunc : {KeyfuncK},
   Extractor : {Nil, FromAuthHeaderFn, CustomExtractorFn},
   SigningMethod : {Nil, SigningMethodHS256, SigningMethodRS256}]

InitConc ==
  /\ optsIn \in OptionsConc
  /\ options = optsIn
  /\ core = Nil
  /\ ProcInit
  /\ dreq = Absent
  /\ dout = NotCalled

CallConc(p) ==
  \E r \in ConcRequests :
    \/ Enter(p, "Get", r, Nil)
    \/ \E c \in CallerClaims : Enter(p, "GetWithClaims", r, c)

NextConc ==
  \/ New
  \/ \E p \in Procs : CallConc(p)
  \/ \E p \in Procs : RawTokenStep(p)
  \/ \E p \in Procs : ParseStep(p)
  \/ \E p \in Procs : ValidateTokenStep(p)
  \/ \E p \in Procs : Return(p)

SpecConc == InitConc /\ [][NextConc]_vars

\* C8: once New has returned, no step of any validation changes the Options
\* the Core holds, however the validations interleave.
C8_OptionsNeverWritten == [][core = "built" => options' = options]_vars

C8_Witness ==
  /\ core = "built"
  /\ \E p, q \in Procs :
       /\ p # q
       /\ pc[p] = "validate"
       /\ pc[q] = "done"
       /\ result[q].token # NilToken

(***************************************************************************)
(* Round trip through the library.  The library's parse-and-verify is      *)
(* modelled by what the Core relies on: structural decoding of the three   *)
(* dot-separated segments, the key resolver's key for the token,           *)
(* the validity check of the claims (expiry), and verification of the      *)
(* signature segment under that key and the token's declared algorithm.    *)
(***************************************************************************)
Dot == "."

\* segment encodings (stand-ins for base64url of the JSON header and claims)
HeaderSegment(a) ==
  CASE a = "HS256" -> << "H", "s" >>
    [] a = "HS384" -> << "H", "t" >>

ClaimsOk == {"claimsA", "claimsB"}
ClaimsExpired == "claimsExpired"
ClaimsRT == ClaimsOk \cup {ClaimsExpired}

ClaimsSegment(c) ==
  CASE c = "claimsA" -> << "c", "A" >>
    [] c = "claimsB" -> << "c", "B" >>
    [] c = ClaimsExpired -> << "c", "X" >>

Keys == {"k1", "k2"}
KeyChar(k) == CASE k = "k1" -> "K" [] k = "k2" -> "k"

\* the signature of a signing input under a key: a tag that differs for
\* every other key or input
Sign(k, hseg, cseg) == << KeyChar(k) >> \o hseg \o cseg

\* a token signed with algorithm a and key k over claims c
Encode(a, k, c) ==
  HeaderSegment(a) \o << Dot >> \o ClaimsSegment(c) \o << Dot >>
    \o Sign(k, HeaderSegment(a), ClaimsSegment(c))

\* key resolvers: one per key, and one that fails
KeyfuncFor(k) == "Keyfunc_" \o k
KeyfuncFailing == "Keyfunc_failing"
KeyfuncsRT == { KeyfuncFor(k) : k \in Keys } \cup {KeyfuncFailing}
KeyfuncErr == Errorf("unknown key id", << >>)

ResolveKey(kf) ==
  IF \E k \in Keys : kf = KeyfuncFor(k)
    THEN [key |-> CHOOSE k \in Keys : kf = KeyfuncFor(k), err |-> NoErr]
    ELSE [key |-> Nil, err |-> KeyfuncErr]

\* jwt.Parse / jwt.ParseWithClaims
JwtParse(rawtok, container, keyfunc) ==
  LET parts == Split(rawtok, Dot)
      malformed == Errorf("token contains an invalid number of segments", << >>)
  IN IF Len(parts) # 3 THEN [token |-> NilToken, err |-> malformed]
     ELSE IF ~\E a \in {"HS256", "HS384"} : HeaderSegment(a) = parts[1]
       THEN [token |-> NilToken, err |-> Errorf("token is malformed", << >>)]
     ELSE IF ~\E c \in ClaimsRT : ClaimsSegment(c) = parts[2]
       THEN [token |-> NilToken, err |-> Errorf("token is malformed", << >>)]
     ELSE
       LET a == CHOOSE a \in {"HS256", "HS384"} : HeaderSegment(a) = parts[1]
           c == CHOOSE c \in ClaimsRT : ClaimsSegment(c) = parts[2]
           tok == Token(rawtok, StringVal(a), container, c, FALSE)
           k == ResolveKey(keyfunc)
       IN IF keyfunc = Nil THEN [token |-> tok, err |-> NoKeyfuncErr]
          ELSE IF k.err # NoErr THEN [token |-> tok, err |-> k.err]
          ELSE IF c = ClaimsExpired
            THEN [token |-> tok, err |-> Errorf("Token is expired", << >>)]
          ELSE IF parts[3] # Sign(k.key, parts[1], parts[2])
            THEN [token |-> tok, err |-> Errorf("signature is invalid", << >>)]
          ELSE [token |-> [tok EXCEPT !.Valid = TRUE], err |-> NoErr]

OptionsRT ==
  [Keyfunc : {Nil} \cup KeyfuncsRT,
   Extractor : {Nil, FromAuthHeaderFn},
   SigningMethod : {Nil, SigningMethodHS256, SigningMethodHS384}]

MethodsRT == {SigningMethodHS256, SigningMethodHS384}

BearerHeader(tok) == Header(BearerUpper \o << Space >> \o tok)

RequestsRT ==
  {Absent} \cup
  { BearerHeader(Encode(Alg(m), k, c)) : m \in MethodsRT, k \in Keys, c \in ClaimsRT }

InitRT ==
  /\ optsIn \in OptionsRT
  /\ options = optsIn
  /\ core = Nil
  /\ ProcInit
  /\ dreq = Absent
  /\ dout = NotCalled

CallRT(p) ==
  \E r \in RequestsRT :
    \/ Enter(p, "Get", r, Nil)
    \/ \E c \in CallerClaims : Enter(p, "GetWithClaims", r, c)

ParseStepRT(p) ==
  ParseWith(p, { JwtParse(raw[p], ClaimsContainer(entry[p], claims[p]),
                          options.Keyfunc) })

NextRT ==
  \/ New
  \/ \E p \in Sequential : CallRT(p)
  \/ \E p \in Sequential : RawTokenStep(p)
  \/ \E p \in Sequential : ParseStepRT(p)
  \/ \E p \in Sequential : ValidateTokenStep(p)
  \/ \E p \in Sequential : Return(p)

SpecRT == InitRT /\ [][NextRT]_vars

\* the validation p is of a token made from claims c with key k and method
\* m, on a Core whose key resolver returns k and whose SigningMethod is m
RoundTripOf(p, m, k, c) ==
  /\ Done(p)
  /\ req[p] = BearerHeader(Encode(Alg(m), k, c))
  /\ options.Keyfunc = KeyfuncFor(k)
  /\ options.SigningMethod = m

RoundTripSucceeds(p, m, k, c) ==
  /\ result[p].err = NoErr
  /\ result[p].token = lib[p].token
  /\ result[p].token # NilToken
  /\ result[p].token.Valid
  /\ result[p].token.Claims.data = c
  /\ result[p].token.Claims.container = ClaimsContainer(entry[p], claims[p])

\* C5 as stated: the round trip succeeds for every key, algorithm and claims.
C5_RoundTripAllClaims ==
  \A p \in Procs : \A m \in MethodsRT, k \in Keys, c \in ClaimsRT :
    RoundTripOf(p, m, k, c) => RoundTripSucceeds(p, m, k, c)

\* C5, amended: the round trip succeeds for every key, algorithm and claims
\* that pass the library's validity check of the claims (not expired): Get
\* and GetWithClaims return no error and the library's token unchanged,
\* with claims equal to the encoded ones, in the caller's container for
\* GetWithClaims.
C5_RoundTripValidClaims ==
  \A p \in Procs : \A m \in MethodsRT, k \in Keys, c \in ClaimsOk :
    RoundTripOf(p, m, k, c) => RoundTripSucceeds(p, m, k, c)

C5_Witness ==
  \E p \in Procs :
    /\ RoundTripOf(p, SigningMethodHS384, "k2", "claimsB")
    /\ entry[p] = "GetWithClaims"
    /\ result[p].token.Claims = [container |-> StandardClaims, data |-> "claimsB"]
    /\ result[p].err = NoErr

====
